---- MODULE Spec2Model ----
(***************************************************************************)
(* Query execution orchestration of the lean analytics platform.           *)
(*                                                                         *)
(* Two pieces of the repository drive an asynchronous Athena execution:    *)
(*   - execute_query of the SQL query validation script                    *)
(*     (scripts/validate-athena.sh, lines 147-372, under `set -e`);        *)
(*   - the test query wait loop of the Athena validation script            *)
(*     (scripts/validate-athena.sh, lines 1-146, under `set -e`).          *)
(* The poll loops of the end-to-end deployment script (README.md), and     *)
(* several runs of execute_query against one engine, are modelled too.     *)
(* The UI server (ui/server.js) is not part of the sources; its request    *)
(* validation (Dispatch) and its Result Normalizer are modelled from the   *)
(* specification.                                                          *)
(*                                                                         *)
(* Further parts, each with its own specification:                         *)
(*   - PlatformSpec: the named-query catalog of the UI server and the two  *)
(*     stacks of the CDK app (cdk/bin/app.ts) under cdk deploy / destroy;  *)
(*   - ToolsSpec: validate-deployment.sh and the end-to-end test script    *)
(*     (README.md), and the local development test script (docs).          *)
(***************************************************************************)
EXTENDS Integers, Sequences, FiniteSets, TLC

VARIABLES
    script,         \* which script is running: "none", "execute", "athena"
    pc,             \* position of the running script
    req,            \* the QueryRequest handed to execute
    query,          \* $1 of execute_query: the resolved SQL text
    execution_id,   \* local execution_id / QUERY_EXECUTION_ID
    attempt,        \* local attempt (execute_query) / loop variable i (athena)
    status,         \* local status / STATUS: last value a status check gave
    error_message,  \* local error_message: the StateChangeReason read
    final_status,   \* local final_status of test_data_queries
    row_count,      \* local row_count: length(ResultSet.Rows) read
    msgs,           \* outcome lines printed so far, in order
    rc,             \* return code of execute_query / exit code of the script
    calls,          \* engine operations issued, counted per operation
    observed,       \* set of the values the status checks have returned
    engQuery,       \* remote engine: the --query-string it accepted
    engState,       \* remote engine: state of the execution
    engReason,      \* remote engine: StateChangeReason of the execution
    engResult,      \* remote engine: ResultSet.Rows, one cell per row
    outstanding,    \* status checks issued by execute_query and not yet returned
    signal,         \* an interrupt (SIGINT/SIGTERM) was delivered to the script
    normalizer,     \* Result Normalizer of the UI server: its pass over one
                    \* SUCCEEDED execution
    runs,           \* concurrent runs of execute_query: the locals of each
    executions,     \* remote engine: state of every execution, by handle
    catalog,        \* named-query catalog the UI server holds, id |-> SQL
    lookups,        \* results the catalog gave so far, by id looked up
    stacks,         \* the two CloudFormation stacks and the cdk command at work
    validation,     \* validate-deployment.sh: counters and position
    tests,          \* end-to-end test script: TESTS_* counters and position
    localdev        \* local development test script: its variables and position

\* state of the shell scripts and of the remote engine
scriptVars == <<script, pc, req, query, execution_id, attempt, status, error_message,
                final_status, row_count, msgs, rc, calls, observed, engQuery, engState, engReason,
                engResult, outstanding, signal>>

\* state of the UI server
serverVars == <<normalizer>>

\* state of the concurrent runs of execute_query and of their engine
concVars == <<runs, executions>>

\* the catalog of the UI server and the deployed stacks
platformVars == <<catalog, lookups, stacks>>

\* the validation and test scripts
toolVars == <<validation, tests, localdev>>

vars == <<scriptVars, serverVars, concVars, platformVars, toolVars>>

----------------------------------------------------------------------------
(* Bounds of the model *)

\* configured maximum length of a custom SQL string
MaxSqlLen == 2

\* largest length(ResultSet.Rows) the engine returns
MaxRows == 2

\* number of runs of execute_query going on at the same time
NumRuns == 2

\* largest number of result pages of one execution
MaxPages == 2

\* largest number of rows on one result page
MaxPageRows == 2

----------------------------------------------------------------------------
(* Program constants *)

\* local max_attempts=30
max_attempts == 30

\* for i in {1..30}
athena_iterations == 30

\* local max_attempts=15 of test_athena_workgroup
wg_max_attempts == 15

\* local max_attempts=15 of test_data_queries
dq_max_attempts == 15

\* set -e  # Exit on any error
ERREXIT == TRUE

----------------------------------------------------------------------------
(* Values *)

\* characters a SQL string is made of: white space, a letter, a metacharacter
Chars == {" ", "a", ";"}

SqlStrings == UNION {[1..k -> Chars] : k \in 0..(MaxSqlLen + 1)}

\* ids a named request can carry; the last two are not catalog entries
NamedIds == {"top_orders", "returns_by_customer", "returned_orders",
             "nonexistent", "does_not_exist"}

\* the three named queries of the UI server, id |-> SQL template
Catalog == [id \in {"top_orders", "returns_by_customer", "returned_orders"} |->
              IF id = "top_orders" THEN <<"a">>
              ELSE IF id = "returns_by_customer" THEN <<"a", "a">>
              ELSE <<"a", " ", "a">>]

\* QueryRequest: { kind: Custom, sql } or { kind: Named, id }
Requests == [kind : {"Custom"}, sql : SqlStrings, id : {""}]
            \cup [kind : {"Named"}, sql : {<<>>}, id : NamedIds]

NoRequest == [kind |-> "None", sql |-> <<>>, id |-> ""]

\* QueryExecution.Status.State values of the engine
InProgressStatuses == {"QUEUED", "RUNNING"}
TerminalStatuses == {"SUCCEEDED", "FAILED", "CANCELLED"}

\* values of a status check that are outside the known set
UnknownStatuses == {"WEIRD", ""}

\* cells of a result row: the name of the column, and a count
ColumnName == "_col0"
Cells == {ColumnName, "50"}

\* ResultSet.Rows the engine can hold for a SUCCEEDED execution; Athena puts
\* the column names in Rows[0] of a SELECT, and no such row for other statements
ResultRows == UNION {[1..k -> Cells] : k \in 0..MaxRows}

\* QueryExecution.Status.StateChangeReason values
Reasons == {"syntax error", "cancelled by user"}

NoCalls == [submit |-> 0, state |-> 0, reason |-> 0, results |-> 0, cancel |-> 0]

\* exit code of a failed aws command
AwsFailure == 255

\* exit code of a script ended by SIGINT
SigintStatus == 130

\* one printed outcome line: which echo printed it and the variable it shows
Msg(tag, text) == [tag |-> tag, text |-> text]

\* the concurrent runs, and the locals of execute_query before it starts
Procs == 1..NumRuns
RunIdle == [pc |-> "idle", execution_id |-> 0, attempt |-> 0, status |-> "",
            line |-> "", rc |-> 0, seen |-> <<>>, asked |-> {}]

\* getResults(handle, pageToken?) -> {columns, rows, nextPageToken?, stats}:
\* column names of a page, and rows of as many values
ColumnSets == {<<"a", "b">>, <<"b", "a">>}
RowValues == {<<"a", "b">>, <<"b", "a">>}
PageRows == UNION {[1..k -> RowValues] : k \in 0..MaxPageRows}
Pages == [columns : ColumnSets, rows : PageRows]

\* the pages the engine holds for one SUCCEEDED execution; page i carries
\* the continuation token i + 1, the last page none
EnginePages == UNION {[1..n -> Pages] : n \in 1..MaxPages}

\* stats: {executionTimeMs, bytesScanned}
StatsValues == {[executionTimeMs |-> ms, bytesScanned |-> 1024] : ms \in {1500, 2500}}
NoStats == [executionTimeMs |-> 0, bytesScanned |-> 0]

\* the Normalizer before it is given an execution
NormalizerIdle ==
    [pc |-> "idle", pages |-> <<>>, stats |-> NoStats, token |-> 0,
     columns |-> <<>>, rows |-> <<>>, fetched |-> <<>>, pass |-> 0,
     outcomes |-> <<>>]

\* what can be asked of the catalog: an id, or the whole list
LookupKeys == NamedIds \cup {"*"}

\* neither stack is deployed and no cdk command is at work; `last` is the
\* status the last stack operation ended with
NoStacks ==
    [data |-> "absent", athena |-> "absent", op |-> "idle", queue |-> <<>>,
     last |-> ""]

\* validate-deployment.sh before it is run: ERRORS=0, WARNINGS=0
ValidationIdle ==
    [pc |-> "idle", fn |-> 0, check |-> 0, SKIP_AWS |-> FALSE, SKIP_UI |-> FALSE,
     ERRORS |-> 0, WARNINGS |-> 0, summary |-> FALSE, rc |-> 0]

\* the end-to-end test script before it is run: its three counters at 0
TestsIdle ==
    [pc |-> "idle", next |-> 0, TESTS_TOTAL |-> 0, TESTS_PASSED |-> 0,
     TESTS_FAILED |-> 0, rate |-> -1, rc |-> 0]

\* the local development test script before it is run: SERVER_PID=""
LocalDevIdle ==
    [pc |-> "idle", check |-> 0, failed_prereqs |-> 0, structure_errors |-> 0,
     install_errors |-> 0, aws_configured |-> FALSE, SERVER_PID |-> "",
     server_ready |-> FALSE, attempt |-> 0, ran |-> {}, rejected |-> {},
     lines |-> {}, cleaned |-> FALSE, signalled |-> {}, rc |-> 0]

----------------------------------------------------------------------------
(* Submission Dispatcher (ui/server.js) *)

IsSpace(c) == c = " "

RECURSIVE TrimLeft(_)
TrimLeft(s) == IF s = <<>> THEN <<>>
               ELSE IF IsSpace(Head(s)) THEN TrimLeft(Tail(s)) ELSE s

RECURSIVE TrimRight(_)
TrimRight(s) == IF s = <<>> THEN <<>>
                ELSE IF IsSpace(s[Len(s)]) THEN TrimRight(SubSeq(s, 1, Len(s) - 1))
                ELSE s

Trim(s) == TrimRight(TrimLeft(s))

\* ValidSql without the trimming: a blank string counts as SQL
ValidSql_NoTrim(s) == Len(s) > 0 /\ Len(s) <= MaxSqlLen

\* ValidSql with a content filter: a string holding ";" is turned down
ValidSql_RejectsMeta(s) ==
    /\ Len(Trim(s)) > 0
    /\ Len(s) <= MaxSqlLen
    /\ \A i \in 1..Len(s) : s[i] # ";"

\* custom SQL: non-empty after trimming, length at most the configured maximum
ValidSql(s) == Len(Trim(s)) > 0 /\ Len(s) <= MaxSqlLen

\* Dispatch falling back to a default query for an unknown id
Dispatch_DefaultQuery(r) ==
    IF r.kind = "Named"
    THEN IF r.id \in DOMAIN Catalog
         THEN [ok |-> TRUE, kind |-> "", sql |-> Catalog[r.id]]
         ELSE [ok |-> TRUE, kind |-> "", sql |-> Catalog["top_orders"]]
    ELSE IF ValidSql(r.sql)
         THEN [ok |-> TRUE, kind |-> "", sql |-> r.sql]
         ELSE [ok |-> FALSE, kind |-> "InvalidRequest", sql |-> <<>>]

Dispatch(r) ==
    IF r.kind = "Named"
    THEN IF r.id \in DOMAIN Catalog
         THEN [ok |-> TRUE, kind |-> "", sql |-> Catalog[r.id]]
         ELSE [ok |-> FALSE, kind |-> "NotFound", sql |-> <<>>]
    ELSE IF ValidSql(r.sql)
         THEN [ok |-> TRUE, kind |-> "", sql |-> r.sql]
         ELSE [ok |-> FALSE, kind |-> "InvalidRequest", sql |-> <<>>]

----------------------------------------------------------------------------
(* bash semantics the scripts depend on *)

\* exit status of (( expr )): 1 when the expression evaluates to 0;
\* the value of attempt++ is the value of attempt before the increment
ArithStatus(value) == IF value = 0 THEN 1 ELSE 0

\* under set -e a simple command with a non-zero status ends the script
Aborts(exitStatus) == ERREXIT /\ exitStatus # 0

----------------------------------------------------------------------------
(* Remote engine *)

\* what a status check can return: the state of the execution, or a value
\* outside the known set
StatusReplies == {engState} \cup UnknownStatuses

\* length(ResultSet.Rows)
engRows == Len(engResult)

EngineStep ==
    /\ engState \in InProgressStatuses
    /\ \/ /\ engState = "QUEUED"
          /\ engState' = "RUNNING"
          /\ UNCHANGED <<engReason, engResult>>
       \/ /\ engState' = "SUCCEEDED"
          /\ engResult' \in ResultRows
          /\ UNCHANGED engReason
       \/ /\ engState' \in {"FAILED", "CANCELLED"}
          /\ engReason' \in Reasons
          /\ UNCHANGED engResult
    /\ UNCHANGED <<outstanding, signal>>
    /\ UNCHANGED <<script, pc, req, query, execution_id, attempt, status,
                   error_message, final_status, row_count, msgs, rc, calls, observed, engQuery>>
    /\ UNCHANGED <<serverVars, concVars, platformVars, toolVars>>

----------------------------------------------------------------------------
Init ==
    /\ script = "none"
    /\ pc = "idle"
    /\ req = NoRequest
    /\ query = <<>>
    /\ execution_id = ""
    /\ attempt = 0
    /\ status = ""
    /\ error_message = ""
    /\ final_status = ""
    /\ row_count = 0
    /\ msgs = <<>>
    /\ rc = 0
    /\ calls = NoCalls
    /\ observed = {}
    /\ engQuery = <<>>
    /\ engState = "NONE"
    /\ engReason = ""
    /\ engResult = <<>>
    /\ outstanding = 0
    /\ signal = FALSE
    /\ normalizer = NormalizerIdle
    /\ runs = [p \in Procs |-> RunIdle]
    /\ executions = <<>>
    /\ catalog = Catalog
    /\ lookups = [seen |-> [k \in LookupKeys |-> {}], ops |-> {}]
    /\ stacks = NoStacks
    /\ validation = ValidationIdle
    /\ tests = TestsIdle
    /\ localdev = LocalDevIdle

----------------------------------------------------------------------------
(* execute: Dispatcher, then execute_query of the query validation script *)

\* the request is validated and resolved; a rejected request is answered
\* at once, an accepted one becomes $1 of execute_query
execute(r) ==
    /\ pc = "idle"
    /\ script' = "execute"
    /\ req' = r
    /\ LET d == Dispatch(r) IN
         IF d.ok
         THEN /\ query' = d.sql
              /\ pc' = "start"
              /\ UNCHANGED <<msgs, rc>>
         ELSE /\ msgs' = Append(msgs, Msg(d.kind, ""))
              /\ rc' = 1
              /\ pc' = "returned"
              /\ UNCHANGED query
    /\ UNCHANGED <<execution_id, attempt, status, error_message, final_status, row_count,
                   calls, observed, engQuery, engState, engReason, engResult, outstanding, signal>>
    /\ UNCHANGED <<serverVars, concVars, platformVars, toolVars>>

\* local execution_id=$(aws athena start-query-execution ...): `local` hides
\* the status of the substitution, so a failed call leaves execution_id empty
StartQuery ==
    /\ script = "execute"
    /\ pc = "start"
    /\ calls' = [calls EXCEPT !.submit = @ + 1]
    /\ \/ /\ execution_id' = "exec-1"
          /\ engQuery' = query
          /\ engState' = "QUEUED"
          /\ status' = ""
          /\ attempt' = 0
          /\ pc' = "while"
          /\ UNCHANGED <<msgs, rc>>
       \/ /\ execution_id' = ""
          /\ msgs' = Append(msgs, Msg("start_failed", ""))
          /\ rc' = 1
          /\ pc' = "returned"
          /\ UNCHANGED <<engQuery, engState, status, attempt>>
    /\ UNCHANGED <<script, req, query, error_message, final_status, row_count, observed,
                   engReason, engResult, outstanding, signal>>
    /\ UNCHANGED <<serverVars, concVars, platformVars, toolVars>>

\* while [ $attempt -lt $max_attempts ]; past the loop: "Query timed out
\* after $max_attempts attempts", return 1
WhileTest ==
    /\ script = "execute"
    /\ pc = "while"
    /\ IF attempt < max_attempts
       THEN /\ pc' = "poll"
            /\ UNCHANGED <<msgs, rc>>
       ELSE /\ msgs' = Append(msgs, Msg("timeout", ""))
            /\ rc' = 1
            /\ pc' = "returned"
    /\ UNCHANGED <<script, req, query, execution_id, attempt, status,
                   error_message, final_status, row_count, calls, observed, engQuery,
                   engState, engReason, engResult, outstanding, signal>>
    /\ UNCHANGED <<serverVars, concVars, platformVars, toolVars>>

\* GetStatus going on to the next call without waiting for the reply
GetStatus_NoWait ==
    /\ script = "execute"
    /\ pc = "poll"
    /\ calls' = [calls EXCEPT !.state = @ + 1]
    /\ outstanding' = outstanding + 1
    /\ UNCHANGED <<script, pc, req, query, execution_id, attempt, status,
                   error_message, final_status, row_count, msgs, rc, observed,
                   engQuery, engState, engReason, engResult>>
    /\ UNCHANGED signal
    /\ UNCHANGED <<serverVars, concVars, platformVars, toolVars>>

\* status=$(aws athena get-query-execution ... Status.State): the command
\* substitution starts the aws process and the shell waits for it
GetStatus ==
    /\ script = "execute"
    /\ pc = "poll"
    /\ calls' = [calls EXCEPT !.state = @ + 1]
    /\ outstanding' = outstanding + 1
    /\ pc' = "await"
    /\ UNCHANGED <<script, req, query, execution_id, attempt, status,
                   error_message, final_status, row_count, msgs, rc, observed,
                   engQuery, engState, engReason, engResult>>
    /\ UNCHANGED signal
    /\ UNCHANGED <<serverVars, concVars, platformVars, toolVars>>

\* the aws process ends: its output becomes $status; the assignment is a
\* plain one, so a failed call ends the script under set -e
StatusReturns ==
    /\ script = "execute"
    /\ pc = "await"
    /\ outstanding > 0
    /\ outstanding' = outstanding - 1
    /\ \/ \E reply \in StatusReplies :
             /\ status' = reply
             /\ observed' = observed \cup {reply}
             /\ pc' = "case"
             /\ UNCHANGED rc
       \/ IF Aborts(AwsFailure)
          THEN /\ pc' = "exited"
               /\ rc' = AwsFailure
               /\ UNCHANGED <<status, observed>>
          ELSE /\ status' = ""
               /\ observed' = observed \cup {""}
               /\ pc' = "case"
               /\ UNCHANGED rc
    /\ UNCHANGED <<script, req, query, execution_id, attempt, error_message,
                   final_status, row_count, msgs, calls, engQuery, engState,
                   engReason, engResult>>
    /\ UNCHANGED signal
    /\ UNCHANGED <<serverVars, concVars, platformVars, toolVars>>

\* "SUCCEEDED") two get-query-results calls (column names, length of Rows),
\* both behind `local`; return 0
CaseSucceeded ==
    /\ script = "execute"
    /\ pc = "case"
    /\ status = "SUCCEEDED"
    /\ calls' = [calls EXCEPT !.results = @ + 2]
    /\ row_count' \in {engRows, 0}
    /\ msgs' = Append(msgs, Msg("completed", ""))
    /\ rc' = 0
    /\ pc' = "returned"
    /\ UNCHANGED <<script, req, query, execution_id, attempt, status,
                   error_message, final_status, observed, engQuery, engState, engReason,
                   engResult, outstanding, signal>>
    /\ UNCHANGED <<serverVars, concVars, platformVars, toolVars>>

\* CaseFailed going round the loop again instead of returning
CaseFailed_NoReturn ==
    /\ script = "execute"
    /\ pc = "case"
    /\ status = "FAILED"
    /\ calls' = [calls EXCEPT !.reason = @ + 1]
    /\ error_message' \in {engReason, ""}
    /\ msgs' = Append(msgs, Msg("failed", error_message'))
    /\ attempt' = attempt + 1
    /\ pc' = "while"
    /\ UNCHANGED <<script, req, query, execution_id, status, rc,
                   row_count, observed, engQuery, engState, engReason, engResult, outstanding, signal>>
    /\ UNCHANGED final_status
    /\ UNCHANGED <<serverVars, concVars, platformVars, toolVars>>

\* "FAILED") local error_message=$(aws athena get-query-execution ...
\* StateChangeReason); "Query failed: $error_message"; return 1
CaseFailed ==
    /\ script = "execute"
    /\ pc = "case"
    /\ status = "FAILED"
    /\ calls' = [calls EXCEPT !.reason = @ + 1]
    /\ error_message' \in {engReason, ""}
    /\ msgs' = Append(msgs, Msg("failed", error_message'))
    /\ rc' = 1
    /\ pc' = "returned"
    /\ UNCHANGED <<script, req, query, execution_id, attempt, status,
                   row_count, observed, engQuery, engState, engReason, engResult, outstanding, signal>>
    /\ UNCHANGED final_status
    /\ UNCHANGED <<serverVars, concVars, platformVars, toolVars>>

\* "CANCELLED") "Query was cancelled"; return 1
CaseCancelled ==
    /\ script = "execute"
    /\ pc = "case"
    /\ status = "CANCELLED"
    /\ msgs' = Append(msgs, Msg("cancelled", ""))
    /\ rc' = 1
    /\ pc' = "returned"
    /\ UNCHANGED <<script, req, query, execution_id, attempt, status,
                   error_message, final_status, row_count, calls, observed, engQuery,
                   engState, engReason, engResult, outstanding, signal>>
    /\ UNCHANGED <<serverVars, concVars, platformVars, toolVars>>

\* ((attempt++)) as the last command of a case branch
IncrementAttempt ==
    /\ attempt' = attempt + 1
    /\ IF Aborts(ArithStatus(attempt))
       THEN /\ pc' = "exited"
            /\ rc' = 1
       ELSE /\ pc' = "while"
            /\ UNCHANGED rc

\* "RUNNING"|"QUEUED") sleep 2; ((attempt++))
CaseInProgress ==
    /\ script = "execute"
    /\ pc = "case"
    /\ status \in InProgressStatuses
    /\ IncrementAttempt
    /\ UNCHANGED <<script, req, query, execution_id, status, error_message, final_status,
                   row_count, msgs, calls, observed, engQuery, engState,
                   engReason, engResult, outstanding, signal>>
    /\ UNCHANGED <<serverVars, concVars, platformVars, toolVars>>

\* *) "Unknown status: $status"; ((attempt++))
CaseUnknown ==
    /\ script = "execute"
    /\ pc = "case"
    /\ status \notin InProgressStatuses \cup TerminalStatuses
    /\ msgs' = Append(msgs, Msg("unknown", status))
    /\ IncrementAttempt
    /\ UNCHANGED <<script, req, query, execution_id, status, error_message, final_status,
                   row_count, calls, observed, engQuery, engState, engReason,
                   engResult, outstanding, signal>>
    /\ UNCHANGED <<serverVars, concVars, platformVars, toolVars>>

----------------------------------------------------------------------------
(* Interrupt: none of the scripts sets a trap, so a SIGINT or SIGTERM ends
   the script where it stands; no stop-query-execution is ever issued *)

Running == script # "none" /\ pc \notin {"idle", "returned", "exited", "done", "killed"}

\* Interrupt with the signal ignored (trap '' INT): the script goes on
Interrupt_Ignored ==
    /\ Running
    /\ ~signal
    /\ signal' = TRUE
    /\ UNCHANGED <<script, pc, req, query, execution_id, attempt, status,
                   error_message, final_status, row_count, msgs, rc, calls,
                   observed, engQuery, engState, engReason, engResult,
                   outstanding>>
    /\ UNCHANGED <<serverVars, concVars, platformVars, toolVars>>

\* the shell dies of the signal, and with it the aws process it waits for
Interrupt ==
    /\ Running
    /\ ~signal
    /\ signal' = TRUE
    /\ pc' = "killed"
    /\ rc' = SigintStatus
    /\ outstanding' = 0
    /\ UNCHANGED <<script, req, query, execution_id, attempt, status,
                   error_message, final_status, row_count, msgs, calls,
                   observed, engQuery, engState, engReason, engResult>>
    /\ UNCHANGED <<serverVars, concVars, platformVars, toolVars>>

----------------------------------------------------------------------------
(* Test query of the Athena validation script (step 5) *)

\* the script reaches step 5 and the database has a table
RunAthenaTestQuery ==
    /\ pc = "idle"
    /\ script' = "athena"
    /\ pc' = "a_start"
    /\ UNCHANGED <<req, query, execution_id, attempt, status, error_message, final_status,
                   row_count, msgs, rc, calls, observed, engQuery, engState,
                   engReason, engResult, outstanding, signal>>
    /\ UNCHANGED <<serverVars, concVars, platformVars, toolVars>>

\* QUERY_EXECUTION_ID=$(aws athena start-query-execution ...): a plain
\* assignment; then the first iteration of for i in {1..30}
AthenaStart ==
    /\ script = "athena"
    /\ pc = "a_start"
    /\ calls' = [calls EXCEPT !.submit = @ + 1]
    /\ \/ /\ execution_id' = "exec-1"
          /\ query' = <<"a">>
          /\ engQuery' = <<"a">>
          /\ engState' = "QUEUED"
          /\ attempt' = 1
          /\ pc' = "a_poll"
          /\ UNCHANGED rc
       \/ IF Aborts(AwsFailure)
          THEN /\ pc' = "exited"
               /\ rc' = AwsFailure
               /\ UNCHANGED <<execution_id, query, engQuery, engState, attempt>>
          ELSE /\ execution_id' = ""
               /\ attempt' = 1
               /\ pc' = "a_poll"
               /\ UNCHANGED <<rc, query, engQuery, engState>>
    /\ UNCHANGED <<script, req, status, error_message, final_status, row_count, msgs,
                   observed, engReason, engResult, outstanding, signal>>
    /\ UNCHANGED <<serverVars, concVars, platformVars, toolVars>>

\* STATUS=$(aws athena get-query-execution ... Status.State)
AthenaGetStatus ==
    /\ script = "athena"
    /\ pc = "a_poll"
    /\ calls' = [calls EXCEPT !.state = @ + 1]
    /\ \/ \E reply \in StatusReplies :
             /\ status' = reply
             /\ observed' = observed \cup {reply}
             /\ pc' = "a_case"
             /\ UNCHANGED rc
       \/ IF Aborts(AwsFailure)
          THEN /\ pc' = "exited"
               /\ rc' = AwsFailure
               /\ UNCHANGED <<status, observed>>
          ELSE /\ status' = ""
               /\ observed' = observed \cup {""}
               /\ pc' = "a_case"
               /\ UNCHANGED rc
    /\ UNCHANGED <<script, req, query, execution_id, attempt, error_message, final_status,
                   row_count, msgs, engQuery, engState, engReason, engResult, outstanding, signal>>
    /\ UNCHANGED <<serverVars, concVars, platformVars, toolVars>>

\* if [ "$STATUS" = "SUCCEEDED" ]: "Test query completed successfully",
\* aws athena get-query-results as a plain command, break
AthenaSucceeded ==
    /\ script = "athena"
    /\ pc = "a_case"
    /\ status = "SUCCEEDED"
    /\ msgs' = Append(msgs, Msg("completed", ""))
    /\ calls' = [calls EXCEPT !.results = @ + 1]
    /\ \/ /\ pc' = "a_after"
          /\ UNCHANGED rc
       \/ IF Aborts(AwsFailure)
          THEN /\ pc' = "exited"
               /\ rc' = AwsFailure
          ELSE /\ pc' = "a_after"
               /\ UNCHANGED rc
    /\ UNCHANGED <<script, req, query, execution_id, attempt, status,
                   error_message, final_status, row_count, observed, engQuery, engState,
                   engReason, engResult, outstanding, signal>>
    /\ UNCHANGED <<serverVars, concVars, platformVars, toolVars>>

\* elif FAILED or CANCELLED: "Test query failed with status: $STATUS",
\* aws athena get-query-execution ... StateChangeReason as a plain command
\* printing the reason, break
AthenaFailed ==
    /\ script = "athena"
    /\ pc = "a_case"
    /\ status \in {"FAILED", "CANCELLED"}
    /\ calls' = [calls EXCEPT !.reason = @ + 1]
    /\ \/ /\ error_message' = engReason
          /\ msgs' = msgs \o <<Msg("failed_status", status),
                               Msg("reason", engReason)>>
          /\ pc' = "a_after"
          /\ UNCHANGED rc
       \/ /\ msgs' = Append(msgs, Msg("failed_status", status))
          /\ UNCHANGED error_message
          /\ IF Aborts(AwsFailure)
             THEN /\ pc' = "exited"
                  /\ rc' = AwsFailure
             ELSE /\ pc' = "a_after"
                  /\ UNCHANGED rc
    /\ UNCHANGED <<script, req, query, execution_id, attempt, status,
                   row_count, observed, engQuery, engState, engReason, engResult, outstanding, signal>>
    /\ UNCHANGED final_status
    /\ UNCHANGED <<serverVars, concVars, platformVars, toolVars>>

\* AthenaWait asking for the state once more before it sleeps
AthenaWait_ChecksTwice ==
    /\ script = "athena"
    /\ pc = "a_case"
    /\ status \notin TerminalStatuses
    /\ calls' = [calls EXCEPT !.state = @ + 1]
    /\ IF attempt < athena_iterations
       THEN /\ attempt' = attempt + 1
            /\ pc' = "a_poll"
       ELSE /\ pc' = "a_after"
            /\ UNCHANGED attempt
    /\ UNCHANGED <<script, req, query, execution_id, status, error_message, final_status,
                   row_count, msgs, rc, observed, engQuery, engState,
                   engReason, engResult, outstanding, signal>>
    /\ UNCHANGED <<serverVars, concVars, platformVars, toolVars>>

\* else: "Query status: $STATUS (${i}/30)", sleep 1, next value of i;
\* after the last value the loop ends and i keeps it
AthenaWait ==
    /\ script = "athena"
    /\ pc = "a_case"
    /\ status \notin TerminalStatuses
    /\ IF attempt < athena_iterations
       THEN /\ attempt' = attempt + 1
            /\ pc' = "a_poll"
       ELSE /\ pc' = "a_after"
            /\ UNCHANGED attempt
    /\ UNCHANGED <<script, req, query, execution_id, status, error_message, final_status,
                   row_count, msgs, rc, calls, observed, engQuery, engState,
                   engReason, engResult, outstanding, signal>>
    /\ UNCHANGED <<serverVars, concVars, platformVars, toolVars>>

\* if [ $i -eq 30 ]: "Query timeout after 30 seconds"; the script goes on to
\* its summary and ends with status 0
AthenaAfterLoop ==
    /\ script = "athena"
    /\ pc = "a_after"
    /\ msgs' = IF attempt = athena_iterations
               THEN Append(msgs, Msg("timeout", ""))
               ELSE msgs
    /\ rc' = 0
    /\ pc' = "done"
    /\ UNCHANGED <<script, req, query, execution_id, attempt, status,
                   error_message, final_status, row_count, calls, observed, engQuery,
                   engState, engReason, engResult, outstanding, signal>>
    /\ UNCHANGED <<serverVars, concVars, platformVars, toolVars>>

----------------------------------------------------------------------------
(* test_athena_workgroup of the end-to-end deployment validation script *)

\* variables the end-to-end script does not use
e2eUnused == <<req, error_message, row_count, rc, engReason, engResult, outstanding, signal>>

\* main reaches test_athena_workgroup and its test query
RunWorkgroupTest ==
    /\ pc = "idle"
    /\ script' = "workgroup"
    /\ pc' = "w_start"
    /\ UNCHANGED <<req, query, execution_id, attempt, status, error_message,
                   final_status, row_count, msgs, rc, calls, observed,
                   engQuery, engState, engReason, engResult, outstanding, signal>>
    /\ UNCHANGED <<serverVars, concVars, platformVars, toolVars>>

\* local execution_id=$(aws athena start-query-execution ... || echo "FAILED")
WgStart ==
    /\ script = "workgroup"
    /\ pc = "w_start"
    /\ calls' = [calls EXCEPT !.submit = @ + 1]
    /\ \/ /\ execution_id' = "exec-1"
          /\ query' = <<"a">>
          /\ engQuery' = <<"a">>
          /\ engState' = "QUEUED"
          /\ attempt' = 0
          /\ pc' = "w_while"
          /\ UNCHANGED msgs
       \/ /\ execution_id' = "FAILED"
          /\ msgs' = Append(msgs, Msg("start_failed", ""))
          /\ pc' = "done"
          /\ UNCHANGED <<query, engQuery, engState, attempt>>
    /\ UNCHANGED <<script, status, final_status, observed>>
    /\ UNCHANGED e2eUnused
    /\ UNCHANGED <<serverVars, concVars, platformVars, toolVars>>

\* while [ $attempt -lt $max_attempts ]; nothing follows the loop
WgWhileTest ==
    /\ script = "workgroup"
    /\ pc = "w_while"
    /\ pc' = IF attempt < wg_max_attempts THEN "w_poll" ELSE "done"
    /\ UNCHANGED <<script, query, execution_id, attempt, status, final_status,
                   msgs, calls, observed, engQuery, engState>>
    /\ UNCHANGED e2eUnused
    /\ UNCHANGED <<serverVars, concVars, platformVars, toolVars>>

\* local status=$(aws athena get-query-execution ... || echo "ERROR")
WgGetStatus ==
    /\ script = "workgroup"
    /\ pc = "w_poll"
    /\ calls' = [calls EXCEPT !.state = @ + 1]
    /\ \E reply \in StatusReplies \cup {"ERROR"} :
          /\ status' = reply
          /\ observed' = observed \cup {reply}
    /\ pc' = "w_case"
    /\ UNCHANGED <<script, query, execution_id, attempt, final_status, msgs,
                   engQuery, engState>>
    /\ UNCHANGED e2eUnused
    /\ UNCHANGED <<serverVars, concVars, platformVars, toolVars>>

\* "SUCCEEDED", "FAILED", "CANCELLED" and *): one log line, break
WgFinished ==
    /\ script = "workgroup"
    /\ pc = "w_case"
    /\ status \notin InProgressStatuses
    /\ msgs' = Append(msgs,
                 CASE status = "SUCCEEDED" -> Msg("completed", "")
                   [] status = "FAILED" -> Msg("failed", "")
                   [] status = "CANCELLED" -> Msg("cancelled", "")
                   [] OTHER -> Msg("unknown", status))
    /\ pc' = "done"
    /\ UNCHANGED <<script, query, execution_id, attempt, status, final_status,
                   calls, observed, engQuery, engState>>
    /\ UNCHANGED e2eUnused
    /\ UNCHANGED <<serverVars, concVars, platformVars, toolVars>>

\* "RUNNING"|"QUEUED") sleep 2; attempt=$((attempt + 1))
WgInProgress ==
    /\ script = "workgroup"
    /\ pc = "w_case"
    /\ status \in InProgressStatuses
    /\ attempt' = attempt + 1
    /\ pc' = "w_while"
    /\ UNCHANGED <<script, query, execution_id, status, final_status, msgs,
                   calls, observed, engQuery, engState>>
    /\ UNCHANGED e2eUnused
    /\ UNCHANGED <<serverVars, concVars, platformVars, toolVars>>

----------------------------------------------------------------------------
(* test_data_queries of the end-to-end deployment validation script:
   one of its count queries *)

\* main reaches test_data_queries and one iteration of its for loop
RunDataQuery ==
    /\ pc = "idle"
    /\ script' = "data"
    /\ pc' = "d_start"
    /\ UNCHANGED <<req, query, execution_id, attempt, status, error_message,
                   final_status, row_count, msgs, rc, calls, observed,
                   engQuery, engState, engReason, engResult, outstanding, signal>>
    /\ UNCHANGED <<serverVars, concVars, platformVars, toolVars>>

\* local execution_id=$(aws athena start-query-execution ... || echo "FAILED")
DqStart ==
    /\ script = "data"
    /\ pc = "d_start"
    /\ calls' = [calls EXCEPT !.submit = @ + 1]
    /\ \/ /\ execution_id' = "exec-1"
          /\ query' = <<"a">>
          /\ engQuery' = <<"a">>
          /\ engState' = "QUEUED"
          /\ attempt' = 0
          /\ final_status' = ""
          /\ pc' = "d_while"
          /\ UNCHANGED msgs
       \/ /\ execution_id' = "FAILED"
          /\ msgs' = Append(msgs, Msg("start_failed", ""))
          /\ pc' = "done"
          /\ UNCHANGED <<query, engQuery, engState, attempt, final_status>>
    /\ UNCHANGED <<script, status, observed>>
    /\ UNCHANGED e2eUnused
    /\ UNCHANGED <<serverVars, concVars, platformVars, toolVars>>

\* while [ $attempt -lt $max_attempts ]
DqWhileTest ==
    /\ script = "data"
    /\ pc = "d_while"
    /\ pc' = IF attempt < dq_max_attempts THEN "d_poll" ELSE "d_after"
    /\ UNCHANGED <<script, query, execution_id, attempt, status, final_status,
                   msgs, calls, observed, engQuery, engState>>
    /\ UNCHANGED e2eUnused
    /\ UNCHANGED <<serverVars, concVars, platformVars, toolVars>>

\* local status=$(aws athena get-query-execution ... || echo "ERROR")
DqGetStatus ==
    /\ script = "data"
    /\ pc = "d_poll"
    /\ calls' = [calls EXCEPT !.state = @ + 1]
    /\ \E reply \in StatusReplies \cup {"ERROR"} :
          /\ status' = reply
          /\ observed' = observed \cup {reply}
    /\ pc' = "d_case"
    /\ UNCHANGED <<script, query, execution_id, attempt, final_status, msgs,
                   engQuery, engState>>
    /\ UNCHANGED e2eUnused
    /\ UNCHANGED <<serverVars, concVars, platformVars, toolVars>>

\* SUCCEEDED, FAILED or CANCELLED: final_status="$status"; break
DqFinished ==
    /\ script = "data"
    /\ pc = "d_case"
    /\ status \in TerminalStatuses
    /\ final_status' = status
    /\ pc' = "d_after"
    /\ UNCHANGED <<script, query, execution_id, attempt, status, msgs, calls,
                   observed, engQuery, engState>>
    /\ UNCHANGED e2eUnused
    /\ UNCHANGED <<serverVars, concVars, platformVars, toolVars>>

\* DqWait going round the loop without counting the attempt
DqWait_NoCount ==
    /\ script = "data"
    /\ pc = "d_case"
    /\ status \notin TerminalStatuses
    /\ pc' = "d_while"
    /\ UNCHANGED <<script, query, execution_id, attempt, status, final_status,
                   msgs, calls, observed, engQuery, engState>>
    /\ UNCHANGED e2eUnused
    /\ UNCHANGED <<serverVars, concVars, platformVars, toolVars>>

\* else: sleep 2; attempt=$((attempt + 1))
DqWait ==
    /\ script = "data"
    /\ pc = "d_case"
    /\ status \notin TerminalStatuses
    /\ attempt' = attempt + 1
    /\ pc' = "d_while"
    /\ UNCHANGED <<script, query, execution_id, status, final_status, msgs,
                   calls, observed, engQuery, engState>>
    /\ UNCHANGED e2eUnused
    /\ UNCHANGED <<serverVars, concVars, platformVars, toolVars>>

\* expected_counts=(50 200 30): the count the customers table must have
ExpectedCount == "50"

\* ResultSet.Rows[1].Data[0].VarCharValue: the second row, taken for the
\* first data row; None when there is no such row
RowsOne == IF Len(engResult) >= 2 THEN engResult[2] ELSE "None"

\* DqAfterLoop showing an unset final_status as FAILED
DqAfterLoop_UnsetIsFailed ==
    /\ script = "data"
    /\ pc = "d_after"
    /\ IF final_status = "SUCCEEDED"
       THEN /\ calls' = [calls EXCEPT !.results = @ + 1]
            /\ \E count \in {RowsOne, "0"} :
                  msgs' = Append(msgs,
                             Msg(IF count = ExpectedCount THEN "count_ok"
                                 ELSE "count_mismatch", count))
       ELSE /\ msgs' = Append(msgs, Msg("failed_status",
                          IF final_status = "" THEN "FAILED"
                          ELSE final_status))
            /\ UNCHANGED calls
    /\ pc' = "done"
    /\ UNCHANGED <<script, query, execution_id, attempt, status, final_status,
                   observed, engQuery, engState>>
    /\ UNCHANGED e2eUnused
    /\ UNCHANGED <<serverVars, concVars, platformVars, toolVars>>

\* if [ "$final_status" == "SUCCEEDED" ]: read Rows[1] (0 when the call
\* fails) and compare the count with the expected one; else "$table query failed with status: $final_status"
DqAfterLoop ==
    /\ script = "data"
    /\ pc = "d_after"
    /\ IF final_status = "SUCCEEDED"
       THEN /\ calls' = [calls EXCEPT !.results = @ + 1]
            /\ \E count \in {RowsOne, "0"} :
                  msgs' = Append(msgs,
                             Msg(IF count = ExpectedCount THEN "count_ok"
                                 ELSE "count_mismatch", count))
       ELSE /\ msgs' = Append(msgs, Msg("failed_status", final_status))
            /\ UNCHANGED calls
    /\ pc' = "done"
    /\ UNCHANGED <<script, query, execution_id, attempt, status, final_status,
                   observed, engQuery, engState>>
    /\ UNCHANGED e2eUnused
    /\ UNCHANGED <<serverVars, concVars, platformVars, toolVars>>

----------------------------------------------------------------------------
(* Result Normalizer (ui/server.js): fetches the pages of a SUCCEEDED
   execution and assembles one ResultSet; the Facade wraps it in the
   QueryOutcome *)

\* the first row's values match the column names, positionally
IsDuplicateHeader(columns, row) ==
    /\ Len(row) = Len(columns)
    /\ \A i \in 1..Len(columns) : row[i] = columns[i]

\* drops the first row when it duplicates the header, and that row only
DropDuplicateHeader(columns, rows) ==
    IF rows # <<>> /\ IsDuplicateHeader(columns, rows[1])
    THEN Tail(rows)
    ELSE rows

\* ResultSet: {columns, rows, rowCount, stats}
ResultSet(columns, rows, stats) ==
    LET data == DropDuplicateHeader(columns, rows) IN
      [columns |-> columns, rows |-> data, rowCount |-> Len(data),
       stats |-> stats]

Success(rs) == [tag |-> "Success", resultSet |-> rs, kind |-> ""]
Failure(kind) == [tag |-> "Failure", resultSet |-> <<>>, kind |-> kind]

\* StartPass keeping the rows an earlier pass has collected
StartPass_KeepsRows(n, pass) ==
    [n EXCEPT !.pc = "fetch", !.token = 1, !.columns = <<>>,
              !.fetched = <<>>, !.pass = pass]

\* a pass starts: nothing is kept from an earlier pass
StartPass(n, pass) ==
    [n EXCEPT !.pc = "fetch", !.token = 1, !.columns = <<>>, !.rows = <<>>,
              !.fetched = <<>>, !.pass = pass]

\* the Poller hands over an execution it has seen SUCCEEDED
Normalize(pages, stats) ==
    /\ normalizer.pc = "idle"
    /\ normalizer.pass = 0
    /\ normalizer' = StartPass([normalizer EXCEPT !.pages = pages,
                                                 !.stats = stats], 1)
    /\ UNCHANGED <<scriptVars, concVars, platformVars, toolVars>>

\* FetchPage putting the rows of the new page in front of the others
FetchPage_Prepends ==
    /\ normalizer.pc = "fetch"
    /\ LET page == normalizer.pages[normalizer.token]
           next == IF normalizer.token < Len(normalizer.pages)
                   THEN normalizer.token + 1 ELSE 0
       IN normalizer' =
            [normalizer EXCEPT
               !.columns = IF normalizer.token = 1 THEN page.columns ELSE @,
               !.rows = page.rows \o @,
               !.fetched = Append(@, normalizer.token),
               !.token = next,
               !.pc = IF next = 0 THEN "assemble" ELSE "fetch"]
    /\ UNCHANGED <<scriptVars, concVars, platformVars, toolVars>>

\* getResults(handle, pageToken): the columns are read from the first page,
\* the rows of every page are appended; fetching goes on while the page
\* carries a continuation token
FetchPage ==
    /\ normalizer.pc = "fetch"
    /\ LET page == normalizer.pages[normalizer.token]
           next == IF normalizer.token < Len(normalizer.pages)
                   THEN normalizer.token + 1 ELSE 0
       IN normalizer' =
            [normalizer EXCEPT
               !.columns = IF normalizer.token = 1 THEN page.columns ELSE @,
               !.rows = @ \o page.rows,
               !.fetched = Append(@, normalizer.token),
               !.token = next,
               !.pc = IF next = 0 THEN "assemble" ELSE "fetch"]
    /\ UNCHANGED <<scriptVars, concVars, platformVars, toolVars>>

\* FetchFails going on to assemble what has been fetched so far
FetchFails_ReturnsPartial ==
    /\ normalizer.pc = "fetch"
    /\ normalizer' = [normalizer EXCEPT !.pc = "assemble"]
    /\ UNCHANGED <<scriptVars, concVars, platformVars, toolVars>>

\* a page fetch fails: the whole normalization fails
FetchFails ==
    /\ normalizer.pc = "fetch"
    /\ normalizer' =
         [normalizer EXCEPT !.pc = "failed",
                            !.outcomes = Append(@, Failure("TransportError"))]
    /\ UNCHANGED <<scriptVars, concVars, platformVars, toolVars>>

\* no continuation token is left: the ResultSet is assembled
Assemble ==
    /\ normalizer.pc = "assemble"
    /\ normalizer' =
         [normalizer EXCEPT
            !.pc = "done",
            !.outcomes = Append(@, Success(ResultSet(normalizer.columns,
                                                     normalizer.rows,
                                                     normalizer.stats)))]
    /\ UNCHANGED <<scriptVars, concVars, platformVars, toolVars>>

\* the same execution is normalized a second time
NormalizeAgain ==
    /\ normalizer.pc \in {"done", "failed"}
    /\ normalizer.pass = 1
    /\ normalizer' = StartPass(normalizer, 2)
    /\ UNCHANGED <<scriptVars, concVars, platformVars, toolVars>>

NormNext ==
    \/ \E pages \in EnginePages, stats \in StatsValues : Normalize(pages, stats)
    \/ FetchPage
    \/ FetchFails
    \/ Assemble
    \/ NormalizeAgain

NormSpec == Init /\ [][NormNext]_vars

----------------------------------------------------------------------------
Next ==
    \/ \E r \in Requests : execute(r)
    \/ StartQuery
    \/ WhileTest
    \/ GetStatus
    \/ StatusReturns
    \/ CaseSucceeded
    \/ CaseFailed
    \/ CaseCancelled
    \/ CaseInProgress
    \/ CaseUnknown
    \/ RunAthenaTestQuery
    \/ AthenaStart
    \/ AthenaGetStatus
    \/ AthenaSucceeded
    \/ AthenaFailed
    \/ AthenaWait
    \/ AthenaAfterLoop
    \/ RunWorkgroupTest
    \/ WgStart
    \/ WgWhileTest
    \/ WgGetStatus
    \/ WgFinished
    \/ WgInProgress
    \/ RunDataQuery
    \/ DqStart
    \/ DqWhileTest
    \/ DqGetStatus
    \/ DqFinished
    \/ DqWait
    \/ DqAfterLoop
    \/ Interrupt
    \/ EngineStep

Spec == Init /\ [][Next]_vars

----------------------------------------------------------------------------
(* Concurrent runs of execute_query: each run is a shell of its own, with
   its own locals, and all of them talk to the same engine *)

\* the locals of run p after a step
SetRun(p, r) == runs' = [runs EXCEPT ![p] = r]

\* local execution_id=$(aws athena start-query-execution ...): the engine
\* answers every submission with a handle of its own
CStartQuery(p) ==
    /\ runs[p].pc = "idle"
    /\ \/ /\ executions' = Append(executions, "QUEUED")
          /\ SetRun(p, [runs[p] EXCEPT !.pc = "while",
                                       !.execution_id = Len(executions) + 1])
       \/ /\ SetRun(p, [runs[p] EXCEPT !.pc = "returned", !.rc = 1,
                                       !.line = "start_failed"])
          /\ UNCHANGED executions
    /\ UNCHANGED <<scriptVars, serverVars, platformVars, toolVars>>

\* while [ $attempt -lt $max_attempts ]; past the loop the timeout, return 1
CWhileTest(p) ==
    /\ runs[p].pc = "while"
    /\ IF runs[p].attempt < max_attempts
       THEN SetRun(p, [runs[p] EXCEPT !.pc = "poll"])
       ELSE SetRun(p, [runs[p] EXCEPT !.pc = "returned", !.rc = 1,
                                      !.line = "timeout"])
    /\ UNCHANGED <<executions, scriptVars, serverVars, platformVars, toolVars>>

\* what a status check on handle h gives run p: a reply, or a failed call
StatusCheck(p, h) ==
    \/ \E reply \in {executions[h]} \cup UnknownStatuses :
          SetRun(p, [runs[p] EXCEPT !.pc = "case", !.status = reply,
                                    !.seen = Append(@, reply),
                                    !.asked = @ \cup {h}])
    \/ IF Aborts(AwsFailure)
       THEN SetRun(p, [runs[p] EXCEPT !.pc = "exited", !.rc = AwsFailure,
                                      !.seen = Append(@, "CALL_FAILED"),
                                      !.asked = @ \cup {h}])
       ELSE SetRun(p, [runs[p] EXCEPT !.pc = "case", !.status = "",
                                      !.seen = Append(@, ""),
                                      !.asked = @ \cup {h}])

\* CGetStatus asking for the handle of the latest submission, as a variable
\* shared by the runs would hold it
CGetStatus_LastHandle(p) ==
    /\ runs[p].pc = "poll"
    /\ StatusCheck(p, Len(executions))
    /\ UNCHANGED <<executions, scriptVars, serverVars, platformVars, toolVars>>

\* status=$(aws athena get-query-execution
\*              --query-execution-id "$execution_id" ...)
CGetStatus(p) ==
    /\ runs[p].pc = "poll"
    /\ StatusCheck(p, runs[p].execution_id)
    /\ UNCHANGED <<executions, scriptVars, serverVars, platformVars, toolVars>>

\* case "$status" in ... esac
CCase(p) ==
    /\ runs[p].pc = "case"
    /\ LET r == runs[p] IN
         CASE r.status = "SUCCEEDED" ->
                SetRun(p, [r EXCEPT !.pc = "returned", !.rc = 0,
                                    !.line = "completed"])
           [] r.status = "FAILED" ->
                SetRun(p, [r EXCEPT !.pc = "returned", !.rc = 1,
                                    !.line = "failed",
                                    !.asked = @ \cup {r.execution_id}])
           [] r.status = "CANCELLED" ->
                SetRun(p, [r EXCEPT !.pc = "returned", !.rc = 1,
                                    !.line = "cancelled"])
           [] OTHER ->
                IF Aborts(ArithStatus(r.attempt))
                THEN SetRun(p, [r EXCEPT !.pc = "exited", !.rc = 1,
                                         !.attempt = @ + 1])
                ELSE SetRun(p, [r EXCEPT !.pc = "while", !.attempt = @ + 1])
    /\ UNCHANGED <<executions, scriptVars, serverVars, platformVars, toolVars>>

\* the engine moves one of its executions on
CEngineStep(h) ==
    /\ executions[h] \in InProgressStatuses
    /\ \E next \in {"RUNNING"} \cup TerminalStatuses :
          /\ next # executions[h]
          /\ executions' = [executions EXCEPT ![h] = next]
    /\ UNCHANGED <<runs, scriptVars, serverVars, platformVars, toolVars>>

ConcNext ==
    \/ \E p \in Procs : CStartQuery(p)
    \/ \E p \in Procs : CWhileTest(p)
    \/ \E p \in Procs : CGetStatus(p)
    \/ \E p \in Procs : CCase(p)
    \/ \E h \in 1..Len(executions) : CEngineStep(h)

ConcSpec == Init /\ [][ConcNext]_vars

----------------------------------------------------------------------------
(* The outcome of a run *)

\* the run is over: execute_query returned, the script went past its test
\* query, or the script was ended by set -e
Ended == pc \in {"returned", "exited", "done"}

\* the script was ended by a failed aws call
TransportAbort == pc = "exited" /\ rc = AwsFailure

\* the positions where a status check is in flight or its result has not
\* been acted upon yet
BranchPoints == {"await", "case", "a_case", "w_case", "d_case"}

HasLine(tag) == \E i \in 1..Len(msgs) : msgs[i].tag = tag

\* lines that report a success / a failure of the query
SuccessLines == {"completed", "count_ok", "count_mismatch"}
FailureLines == {"failed", "failed_status", "cancelled", "timeout",
                 "start_failed", "unknown", "InvalidRequest", "NotFound"}

\* error kind an outcome line stands for
KindOf(tag) ==
    CASE tag = "failed" -> "EngineFailure"
      [] tag = "cancelled" -> "Cancelled"
      [] tag = "timeout" -> "TimedOut"
      [] tag = "start_failed" -> "TransportError"
      [] tag = "unknown" -> "UnknownState"
      [] OTHER -> tag

\* what the caller of execute receives: return 0 is a Success, return 1 a
\* Failure described by the last line printed; a script ended by set -e
\* returns nothing
Outcome ==
    IF script = "execute" /\ pc = "returned"
    THEN IF rc = 0
         THEN [tag |-> "Success", kind |-> "", message |-> ""]
         ELSE IF msgs = <<>>
              THEN [tag |-> "Failure", kind |-> "", message |-> ""]
              ELSE [tag |-> "Failure", kind |-> KindOf(msgs[Len(msgs)].tag),
                    message |-> msgs[Len(msgs)].text]
    ELSE [tag |-> "None", kind |-> "", message |-> ""]

\* the run reported a success: execute_query by its return value, the other
\* scripts by a line
ReportsSuccess ==
    IF script = "execute"
    THEN Outcome.tag = "Success"
    ELSE \E i \in 1..Len(msgs) : msgs[i].tag \in SuccessLines

ReportsFailure ==
    IF script = "execute"
    THEN Outcome.tag = "Failure"
    ELSE \E i \in 1..Len(msgs) : msgs[i].tag \in FailureLines

\* number of status checks a poll loop allows
Budget ==
    CASE script = "execute" -> max_attempts
      [] script = "athena" -> athena_iterations
      [] script = "workgroup" -> wg_max_attempts
      [] script = "data" -> dq_max_attempts
      [] OTHER -> 0

\* a terminal state was observed by a status check, or the timeout declared
TerminalReached ==
    \/ calls.state > 0 /\ status \in TerminalStatuses
    \/ HasLine("timeout")

\* the loop used up its attempts without seeing a terminal state
BudgetRanOut ==
    /\ pc \in {"returned", "done"}
    /\ calls.state > 0
    /\ status \notin TerminalStatuses
    /\ attempt >= Budget

\* a printed line names the engine's FAILED state
NamesFailed ==
    \E i \in 1..Len(msgs) :
        \/ msgs[i].tag = "failed"
        \/ msgs[i].tag = "failed_status" /\ msgs[i].text = "FAILED"

\* "Rows returned: $((row_count - 1)) data rows (plus header)"
RowsReported == row_count - 1

\* the first row of the result holds the column name
HeaderFirst(rows) == rows # <<>> /\ rows[1] = ColumnName

\* the rows of all the pages of an execution, in the engine's order
RECURSIVE AllRows(_)
AllRows(pages) ==
    IF pages = <<>> THEN <<>> ELSE Head(pages).rows \o AllRows(Tail(pages))

\* the outcome of the pass the Normalizer has just ended
LastOutcome == normalizer.outcomes[Len(normalizer.outcomes)]

\* how execute_query ends when it runs alone and its status checks give
\* `replies`, from the given value of attempt on
RECURSIVE RunAlone(_, _)
RunAlone(replies, n) ==
    IF n >= max_attempts
    THEN [pc |-> "returned", rc |-> 1, line |-> "timeout"]
    ELSE IF replies = <<>>
    THEN [pc |-> "poll", rc |-> 0, line |-> ""]
    ELSE LET reply == Head(replies) IN
         CASE reply = "CALL_FAILED" ->
                [pc |-> "exited", rc |-> AwsFailure, line |-> ""]
           [] reply = "SUCCEEDED" ->
                [pc |-> "returned", rc |-> 0, line |-> "completed"]
           [] reply = "FAILED" ->
                [pc |-> "returned", rc |-> 1, line |-> "failed"]
           [] reply = "CANCELLED" ->
                [pc |-> "returned", rc |-> 1, line |-> "cancelled"]
           [] OTHER ->
                IF Aborts(ArithStatus(n))
                THEN [pc |-> "exited", rc |-> 1, line |-> ""]
                ELSE RunAlone(Tail(replies), n + 1)

\* get-query-execution calls issued so far, of either sort
StatusQueries == calls.state + calls.reason

\* positions at which an iteration issues its status check, and those at
\* which it waits for the reply or acts on it
PollPoints == {"poll", "a_poll", "w_poll", "d_poll"}

\* the taxonomy of error kinds
ErrorKinds == {"InvalidRequest", "NotFound", "EngineFailure", "Cancelled",
               "TimedOut", "TransportError", "UnknownState"}

\* get-query-results failed behind `local`: the length read is not the
\* length of the rows
ResultFetchFailed ==
    script = "execute" /\ calls.results > 0 /\ row_count # Len(engResult)

\* a stage of the request failed: dispatch, submit, status check, result fetch
StageFailed ==
    \/ HasLine("InvalidRequest")
    \/ HasLine("NotFound")
    \/ HasLine("start_failed")
    \/ TransportAbort
    \/ ResultFetchFailed

----------------------------------------------------------------------------
(* Claims *)

\* C1: an outcome reported by a poll loop comes from a terminal state
\* (SUCCEEDED, FAILED, CANCELLED, or the timeout declared); no outcome is
\* reported while the last state seen is QUEUED or RUNNING, and so none
\* shows an in-progress or unset state as the final one.
C1_TerminalOutcome ==
    (/\ pc \in {"returned", "done"}
     /\ calls.state > 0
     /\ ReportsSuccess \/ ReportsFailure)
        => \/ status \notin InProgressStatuses
           \/ HasLine("timeout")

\* C2: every request that was started ends with exactly one outcome, a
\* Success or a Failure; no run ends with neither and none with both.
C2_ExactlyOneOutcome ==
    (script # "none" /\ Ended /\ ~TransportAbort)
        => (ReportsSuccess # ReportsFailure)

\* C3 as stated: once a terminal state is reached, no further
\* get-query-execution call of any sort is issued for the execution.
C3_NoQueryAfterTerminal ==
    [][TerminalReached =>
          (calls'.state = calls.state /\ calls'.reason = calls.reason)]_vars

\* C3 as amended: once a terminal state is reached no further State query
\* is issued; the only get-query-execution call that follows is a single
\* StateChangeReason query, after FAILED in execute_query and after FAILED
\* or CANCELLED in the Athena wait loop.
C3_NoPollAfterTerminal ==
    [][TerminalReached =>
          /\ calls'.state = calls.state
          /\ calls'.reason <= 1
          /\ calls'.reason # calls.reason =>
                \/ script = "execute" /\ status = "FAILED"
                \/ script = "athena" /\ status \in {"FAILED", "CANCELLED"}]_vars

C3_Witness ==
    /\ script = "execute"
    /\ pc = "returned"
    /\ status = "FAILED"
    /\ calls.reason = 1
    /\ calls.state = 1

\* C4: when every status check gave RUNNING or QUEUED, the request ends
\* with the timeout failure, after the whole budget of status checks.
C4_RunningUntilBudget ==
    (/\ Ended
     /\ ~TransportAbort
     /\ observed # {}
     /\ observed \subseteq InProgressStatuses)
        => /\ ReportsFailure
           /\ HasLine("timeout")
           /\ calls.state = Budget

\* C5: a status outside the known set ends the request at that check with
\* an unknown-status failure; it is not polled again and not reported as a
\* timeout.
C5_UnknownStatusFails ==
    (/\ calls.state > 0
     /\ status \notin InProgressStatuses \cup TerminalStatuses
     /\ pc \notin BranchPoints
     /\ ~signal
     /\ ~TransportAbort)
        => /\ Ended
           /\ ReportsFailure
           /\ HasLine("unknown")
           /\ ~HasLine("timeout")

C7_NotFound ==
    (script = "execute" /\ req.kind = "Named" /\ req.id \notin DOMAIN Catalog)
        => /\ Outcome.tag = "Failure"
           /\ Outcome.kind = "NotFound"
           /\ query = <<>>
           /\ calls = NoCalls
           /\ engQuery = <<>>

C7_Witness ==
    /\ script = "execute"
    /\ req.kind = "Named"
    /\ req.id = "nonexistent"
    /\ pc = "returned"

\* C8: a custom request whose SQL is blank or longer than the maximum is
\* answered with Failure(InvalidRequest) and no engine operation is called.
C8_InvalidRequest ==
    (/\ script = "execute"
     /\ req.kind = "Custom"
     /\ \/ \A i \in 1..Len(req.sql) : req.sql[i] = " "
        \/ Len(req.sql) > MaxSqlLen)
        => /\ Outcome.tag = "Failure"
           /\ Outcome.kind = "InvalidRequest"
           /\ calls = NoCalls
           /\ engQuery = <<>>

C8_Witness ==
    /\ script = "execute"
    /\ req.kind = "Custom"
    /\ req.sql = <<" ">>
    /\ pc = "returned"

C10_ReasonVerbatim ==
    (/\ script = "execute"
     /\ pc = "returned"
     /\ status \in {"FAILED", "CANCELLED"}
     /\ status = "FAILED" => error_message # "")
        => /\ Outcome.tag = "Failure"
           /\ Outcome.kind = (IF status = "FAILED" THEN "EngineFailure"
                              ELSE "Cancelled")
           /\ Outcome.message = engReason

\* C11: when the status checks give QUEUED/RUNNING zero or more times and
\* then SUCCEEDED within the budget, the run polls through the in-progress
\* reports and ends with Success; for a result that starts with its header
\* row the count reported is the number of rows after the header.
C11_SucceedsAfterInProgress ==
    (/\ Ended
     /\ ~TransportAbort
     /\ calls.state > 0
     /\ observed \subseteq InProgressStatuses \cup {"SUCCEEDED"}
     /\ attempt < Budget)
        => /\ status = "SUCCEEDED"
           /\ ReportsSuccess
           /\ ~ReportsFailure
           /\ (script = "execute" /\ HeaderFirst(engResult))
                 => RowsReported = Len(engResult) - 1

\* C12: of the rows read, exactly one is left out of the count when the
\* first row equals the column names, and none in every other case.
C12_HeaderDetection ==
    (/\ script = "execute"
     /\ pc = "returned"
     /\ rc = 0
     /\ row_count = Len(engResult))
        => row_count - RowsReported = (IF HeaderFirst(engResult) THEN 1 ELSE 0)

\* C13: two normalizations of the same SUCCEEDED execution, against the
\* same pages, give ResultSets equal in columns, rows, rowCount and stats.
C13_Idempotent ==
    (/\ Len(normalizer.outcomes) = 2
     /\ normalizer.outcomes[1].tag = "Success"
     /\ normalizer.outcomes[2].tag = "Success")
        => LET one == normalizer.outcomes[1].resultSet
               two == normalizer.outcomes[2].resultSet
           IN /\ one.columns = two.columns
              /\ one.rows = two.rows
              /\ one.rowCount = two.rowCount
              /\ one.stats = two.stats

C13_Witness ==
    /\ Len(normalizer.outcomes) = 2
    /\ normalizer.outcomes[1].tag = "Success"
    /\ normalizer.outcomes[2].tag = "Success"
    /\ Len(normalizer.pages) = 2
    /\ normalizer.outcomes[2].resultSet.rowCount >= 2

\* C14: the rows of a ResultSet are the rows of all the pages in the
\* engine's order, with at most the first one dropped, and its columns are
\* those of the first page.
C14_RowsInEngineOrder ==
    \A i \in 1..Len(normalizer.outcomes) :
        normalizer.outcomes[i].tag = "Success" =>
            LET rs == normalizer.outcomes[i].resultSet
                all == AllRows(normalizer.pages)
            IN /\ rs.columns = normalizer.pages[1].columns
               /\ \/ rs.rows = all
                  \/ all # <<>> /\ rs.rows = Tail(all)
               /\ rs.rowCount = Len(rs.rows)

C14_Witness ==
    /\ normalizer.pc = "done"
    /\ Len(normalizer.pages) = 2
    /\ normalizer.pages[1].columns # normalizer.pages[2].columns
    /\ normalizer.pages[1].rows # <<>>
    /\ LastOutcome.resultSet.rowCount >= 2
    /\ LastOutcome.resultSet.rows[1] # LastOutcome.resultSet.rows[2]

C18_OneQueryPerIteration ==
    [][/\ (pc \in PollPoints /\ pc' # pc /\ ~signal')
            => StatusQueries' = StatusQueries + 1
       /\ pc \in BranchPoints => StatusQueries' = StatusQueries]_vars

\* C18 as amended: an iteration issues exactly one State query; when that
\* query gives FAILED in execute_query, or FAILED or CANCELLED in the Athena
\* wait loop, the iteration reads StateChangeReason with one more call.
C18_OneStateQueryPerIteration ==
    [][/\ (pc \in PollPoints /\ pc' # pc /\ ~signal')
            => (calls'.state = calls.state + 1 /\ calls'.reason = calls.reason)
       /\ pc \in BranchPoints =>
            /\ calls'.state = calls.state
            /\ calls'.reason =
                 (IF /\ pc' # pc
                     /\ ~signal'
                     /\ \/ script = "execute" /\ pc = "case" /\ status = "FAILED"
                        \/ /\ script = "athena"
                           /\ status \in {"FAILED", "CANCELLED"}
                  THEN calls.reason + 1
                  ELSE calls.reason)]_vars

C18_Witness ==
    /\ script = "athena"
    /\ status = "CANCELLED"
    /\ pc = "a_after"
    /\ calls.state = 3
    /\ calls.reason = 1

C20_FailuresReachCaller ==
    (script # "none" /\ Ended /\ StageFailed)
        => /\ ReportsFailure
           /\ script = "execute" => Outcome.kind \in ErrorKinds

----------------------------------------------------------------------------
(* State of the Execution as the caller holds it *)

\* the state the script holds for its execution: none before a handle is
\* returned, Queued until the first status check, then the value read by
\* the last status check; TimedOut once the timeout line is printed
ExecState ==
    CASE execution_id = "" -> "None"
      [] HasLine("timeout") -> "TimedOut"
      [] calls.state = 0 \/ status = "QUEUED" -> "Queued"
      [] status = "RUNNING" -> "Running"
      [] status = "SUCCEEDED" -> "Succeeded"
      [] status = "FAILED" -> "Failed"
      [] status = "CANCELLED" -> "Cancelled"
      [] OTHER -> status

\* C23: the state of an Execution starts as Queued and changes only by the
\* listed transitions: Queued to Running, and Queued or Running to
\* Succeeded, Failed, Cancelled or TimedOut; never Running to Queued, and
\* never out of a terminal state.
C23_ListedTransitions ==
    [][ExecState' # ExecState
          => <<ExecState, ExecState'>> \in
                {<<"None", "Queued">>, <<"Queued", "Running">>}
                   \cup ({"Queued", "Running"}
                          \X {"Succeeded", "Failed", "Cancelled", "TimedOut"})]_vars

\* C24: whatever the status checks reply (in progress for ever, values
\* outside the known set, failed calls), a poll loop issues no more status
\* checks than its maximum number of iterations: 30 in execute_query and in
\* the wait loop of the Athena validation, 15 in the end-to-end checks; the
\* attempt counter never passes that maximum.
C24_BoundedIterations ==
    script # "none" => /\ calls.state <= Budget
                       /\ attempt <= Budget

\* test_data_queries left its loop after 15 status checks, a failed call
\* and a value outside the known set among them
C24_Witness ==
    /\ script = "data"
    /\ pc = "d_after"
    /\ calls.state = dq_max_attempts
    /\ status \notin TerminalStatuses
    /\ {"ERROR", "WEIRD"} \subseteq observed

\* C25: a timeout is declared only when the last status check returned a
\* non-terminal status; when the last permitted check returns SUCCEEDED,
\* FAILED or CANCELLED, that outcome is reported and no timeout is.
C25_TimeoutOnlyIfNonTerminal ==
    /\ HasLine("timeout") => status \notin TerminalStatuses
    /\ (Ended /\ ~TransportAbort /\ calls.state = Budget
              /\ status \in TerminalStatuses)
          => /\ ~HasLine("timeout")
             /\ \/ HasLine("completed") \/ HasLine("failed")
                \/ HasLine("failed_status") \/ HasLine("cancelled")
                \/ HasLine("count_ok") \/ HasLine("count_mismatch")

\* C26: a SUCCEEDED execution with no data rows ends as a Success whose
\* reported row count is 0: never a Failure, never a negative count.
C26_ZeroRowSuccess ==
    (/\ script = "execute"
     /\ pc = "returned"
     /\ status = "SUCCEEDED"
     /\ (IF HeaderFirst(engResult) THEN Len(engResult) - 1
         ELSE Len(engResult)) = 0)
        => /\ Outcome.tag = "Success"
           /\ RowsReported = 0

----------------------------------------------------------------------------
(* Named-query catalog of the UI server (ui/server.js), holding the three
   queries AthenaStack.namedQueries deploys *)

\* lookup by id: the entry, or NotFound
CatalogLookup(cat, id) ==
    IF id \in DOMAIN cat
    THEN [ok |-> TRUE, kind |-> "", sql |-> cat[id]]
    ELSE [ok |-> FALSE, kind |-> "NotFound", sql |-> <<>>]

\* the answer to a question of the catalog is kept, with the operation asked
Answered(op, key, answer) ==
    lookups' = [seen |-> [lookups.seen EXCEPT ![key] = @ \cup {answer}],
                ops |-> lookups.ops \cup {op}]

\* Lookup adding a default entry for an id the catalog does not have
Lookup_AddsDefault(id) ==
    /\ Answered("lookup", id, CatalogLookup(catalog, id))
    /\ catalog' = IF id \in DOMAIN catalog
                  THEN catalog
                  ELSE [x \in DOMAIN catalog \cup {id} |->
                           IF x = id THEN catalog["top_orders"] ELSE catalog[x]]
    /\ UNCHANGED <<stacks, scriptVars, serverVars, concVars, toolVars>>

\* lookup of one id
Lookup(id) ==
    /\ Answered("lookup", id, CatalogLookup(catalog, id))
    /\ UNCHANGED catalog
    /\ UNCHANGED <<stacks, scriptVars, serverVars, concVars, toolVars>>

\* GET /api/named-queries: the ids of the catalog
ListQueries ==
    /\ Answered("list", "*", DOMAIN catalog)
    /\ UNCHANGED catalog
    /\ UNCHANGED <<stacks, scriptVars, serverVars, concVars, toolVars>>

\* POST /api/query: the Dispatcher resolves the request; a named request
\* is answered from the catalog
ExecuteRequest(r) ==
    /\ IF r.kind = "Named"
       THEN Answered("execute", r.id, Dispatch(r))
       ELSE lookups' = [lookups EXCEPT !.ops = @ \cup {"execute"}]
    /\ UNCHANGED catalog
    /\ UNCHANGED <<stacks, scriptVars, serverVars, concVars, toolVars>>

----------------------------------------------------------------------------
(* The two stacks of the CDK app (cdk/bin/app.ts) and the cdk commands of
   the READMEs that deploy and destroy them *)

StackNames == {"data", "athena"}

\* the app without a dependency between its stacks
DependsOn_None == {}

\* athenaStack.addDependency(dataStack): <<dependant, dependency>>
DependsOn == {<<"athena", "data">>}

\* the stacks a deploy of T covers, and those a destroy of T covers
WithDependencies(T) ==
    T \cup {d \in StackNames : \E s \in T : <<s, d>> \in DependsOn}

WithDependants(T) ==
    T \cup {s \in StackNames : \E d \in T : <<s, d>> \in DependsOn}

\* the order in which cdk deploys the selected stacks, and destroys them
DeployOrder == <<"data", "athena">>
DestroyOrder == <<"athena", "data">>

\* what is left of the command once the stack at the head is done with
Popped == [op |-> IF Tail(stacks.queue) = <<>> THEN "idle" ELSE stacks.op,
           queue |-> Tail(stacks.queue)]

\* cdk deploy --all / cdk deploy <stack>: the stacks selected and the
\* stacks they depend on, dependencies first
CdkDeploy(T) ==
    /\ stacks.op = "idle"
    /\ stacks' = [stacks EXCEPT !.op = "deploy",
                                !.queue = SelectSeq(DeployOrder,
                                            LAMBDA s : s \in WithDependencies(T))]
    /\ UNCHANGED <<catalog, lookups, scriptVars, serverVars, concVars, toolVars>>

\* the next stack of the deploy: created when absent, left as it is when
\* it exists
DeployBegin ==
    /\ stacks.op = "deploy"
    /\ stacks.queue # <<>>
    /\ LET s == Head(stacks.queue) IN
          /\ stacks[s] \in {"absent", "created"}
          /\ stacks' = IF stacks[s] = "absent"
                       THEN [stacks EXCEPT ![s] = "creating"]
                       ELSE [stacks EXCEPT !.op = Popped.op, !.queue = Popped.queue]
    /\ UNCHANGED <<catalog, lookups, scriptVars, serverVars, concVars, toolVars>>

\* CREATE_COMPLETE: cdk goes on to the next stack
DeployComplete ==
    /\ stacks.op = "deploy"
    /\ stacks.queue # <<>>
    /\ LET s == Head(stacks.queue) IN
          /\ stacks[s] = "creating"
          /\ stacks' = [stacks EXCEPT ![s] = "created",
                                      !.op = Popped.op, !.queue = Popped.queue,
                                      !.last = "CREATE_COMPLETE"]
    /\ UNCHANGED <<catalog, lookups, scriptVars, serverVars, concVars, toolVars>>

\* the creation fails and is rolled back: cdk stops
DeployFails ==
    /\ stacks.op = "deploy"
    /\ stacks.queue # <<>>
    /\ LET s == Head(stacks.queue) IN
          /\ stacks[s] = "creating"
          /\ stacks' = [stacks EXCEPT ![s] = "absent", !.op = "idle", !.queue = <<>>,
                                      !.last = "ROLLBACK_COMPLETE"]
    /\ UNCHANGED <<catalog, lookups, scriptVars, serverVars, concVars, toolVars>>

\* cdk destroy <stack> / cdk destroy --all: the stacks selected and the
\* stacks that depend on them, dependants first
CdkDestroy(T) ==
    /\ stacks.op = "idle"
    /\ stacks' = [stacks EXCEPT !.op = "destroy",
                                !.queue = SelectSeq(DestroyOrder,
                                            LAMBDA s : s \in WithDependants(T))]
    /\ UNCHANGED <<catalog, lookups, scriptVars, serverVars, concVars, toolVars>>

\* the next stack of the destroy
DestroyBegin ==
    /\ stacks.op = "destroy"
    /\ stacks.queue # <<>>
    /\ LET s == Head(stacks.queue) IN
          /\ stacks[s] \in {"absent", "created"}
          /\ stacks' = IF stacks[s] = "created"
                       THEN [stacks EXCEPT ![s] = "deleting"]
                       ELSE [stacks EXCEPT !.op = Popped.op, !.queue = Popped.queue]
    /\ UNCHANGED <<catalog, lookups, scriptVars, serverVars, concVars, toolVars>>

\* DELETE_COMPLETE
DestroyComplete ==
    /\ stacks.op = "destroy"
    /\ stacks.queue # <<>>
    /\ LET s == Head(stacks.queue) IN
          /\ stacks[s] = "deleting"
          /\ stacks' = [stacks EXCEPT ![s] = "absent",
                                      !.op = Popped.op, !.queue = Popped.queue,
                                      !.last = "DELETE_COMPLETE"]
    /\ UNCHANGED <<catalog, lookups, scriptVars, serverVars, concVars, toolVars>>

\* DELETE_FAILED: the stack is still there and cdk stops
DestroyFails ==
    /\ stacks.op = "destroy"
    /\ stacks.queue # <<>>
    /\ LET s == Head(stacks.queue) IN
          /\ stacks[s] = "deleting"
          /\ stacks' = [stacks EXCEPT ![s] = "created", !.op = "idle", !.queue = <<>>,
                                      !.last = "DELETE_FAILED"]
    /\ UNCHANGED <<catalog, lookups, scriptVars, serverVars, concVars, toolVars>>

PlatformNext ==
    \/ \E id \in NamedIds : Lookup(id)
    \/ ListQueries
    \/ \E r \in Requests : ExecuteRequest(r)
    \/ \E T \in (SUBSET StackNames) \ {{}} : CdkDeploy(T)
    \/ DeployBegin
    \/ DeployComplete
    \/ DeployFails
    \/ \E T \in (SUBSET StackNames) \ {{}} : CdkDestroy(T)
    \/ DestroyBegin
    \/ DestroyComplete
    \/ DestroyFails

PlatformSpec == Init /\ [][PlatformNext]_vars

\* C21: the catalog holds the same entries in every reachable state: no
\* lookup, listing or execute adds, removes or changes an entry, and the
\* same question of the catalog always has the same answer.
C21_CatalogImmutable ==
    /\ catalog = Catalog
    /\ \A k \in LookupKeys : Cardinality(lookups.seen[k]) <= 1

\* an unknown id and a known one were looked up, a named request was
\* executed and the list was asked for
C21_Witness ==
    /\ lookups.ops = {"lookup", "list", "execute"}
    /\ lookups.seen["nonexistent"] = {CatalogLookup(Catalog, "nonexistent")}
    /\ lookups.seen["top_orders"] # {}
    /\ lookups.seen["*"] = {DOMAIN Catalog}

----------------------------------------------------------------------------
(* validate-deployment.sh (README.md), run under `set -euo pipefail` *)

\* no other validation or test script is being run
ToolsIdle ==
    validation.pc = "idle" /\ tests.pc = "idle" /\ localdev.pc = "idle"


\* the functions run_validation calls, in its order, and for each of their
\* checks the results it can have
ValChecks ==
    LET \* what a check does: the log calls it makes ("W" for log_warning,
        \* "E" for log_error) and how the function goes on
        CheckResult(logs, end) == [logs |-> logs, end |-> end]
        Pass == CheckResult(<<>>, "next")
        Warn == CheckResult(<<"W">>, "next")
        Err == CheckResult(<<"E">>, "next")
        WarnEnd == CheckResult(<<"W">>, "return0")
        WarnReturn == CheckResult(<<"W">>, "return1")
        ErrReturn == CheckResult(<<"E">>, "return1")
        WarnErrReturn == CheckResult(<<"W", "E">>, "return1")
        ErrExit == CheckResult(<<"E">>, "exit1")
        CallFails == CheckResult(<<>>, "fail")
    IN
    << \* check_prerequisites: missing tools
       << {Pass, ErrExit} >>,
       \* check_aws_auth: authentication, account id, region
       << {Pass, ErrReturn}, {Pass, Warn, CallFails}, {Pass, Warn} >>,
       \* test_cloudformation_stacks: one status per stack
       << {Pass, Warn, Err}, {Pass, Warn, Err} >>,
       \* test_s3_resources: bucket, data files, size of each file
       << {Pass, ErrReturn}, {Pass, ErrReturn},
          {Pass, Warn, CallFails}, {Pass, Warn, CallFails} >>,
       \* test_glue_resources: database, crawler, crawler state, tables,
       \* each expected table
       << {Pass, ErrReturn}, {Pass, ErrReturn}, {Pass, Warn, CallFails},
          {Pass, WarnEnd}, {Pass, Warn}, {Pass, Warn} >>,
       \* test_athena_resources: workgroup, named queries, start of the
       \* test query, its completion
       << {Pass, ErrReturn}, {Pass, WarnReturn}, {Pass, ErrReturn},
          {Pass, ErrReturn, Warn} >>,
       \* test_ui_server: package.json, node_modules, port, server start,
       \* main page, health, named queries
       << {Pass, ErrReturn}, {Pass, Warn, WarnErrReturn}, {Pass, Warn},
          {Pass, ErrReturn}, {Pass, Err, CallFails}, {Pass, Warn, CallFails},
          {Pass, Warn, CallFails} >> >>

\* the function run_validation calls after function f; one more than the
\* number of functions stands for the summary
NextFunction(f) ==
    IF f = 1
    THEN IF ~validation.SKIP_AWS THEN 2
         ELSE IF ~validation.SKIP_UI THEN 7 ELSE Len(ValChecks) + 1
    ELSE IF f = 6
    THEN IF ~validation.SKIP_UI THEN 7 ELSE Len(ValChecks) + 1
    ELSE f + 1

\* log_warning / log_error: the line, then ((WARNINGS++)) / ((ERRORS++));
\* c holds the two counters and whether the script was ended
RECURSIVE ApplyLogs(_, _)
ApplyLogs(logs, c) ==
    IF logs = <<>> \/ c.aborted
    THEN c
    ELSE ApplyLogs(Tail(logs),
            IF Head(logs) = "E"
            THEN [c EXCEPT !.ERRORS = @ + 1,
                           !.aborted = Aborts(ArithStatus(c.ERRORS))]
            ELSE [c EXCEPT !.WARNINGS = @ + 1,
                           !.aborted = Aborts(ArithStatus(c.WARNINGS))])

\* ./scripts/validate-deployment.sh [--skip-ui] [--skip-aws]
RunValidation(skip_aws, skip_ui) ==
    /\ ToolsIdle
    /\ validation' = [validation EXCEPT !.pc = "check", !.fn = 1, !.check = 1,
                                        !.SKIP_AWS = skip_aws, !.SKIP_UI = skip_ui]
    /\ UNCHANGED <<tests, localdev>>
    /\ UNCHANGED <<scriptVars, serverVars, concVars, platformVars>>

\* where the script is after function f ended
AfterFunction(v, f) ==
    IF NextFunction(f) = Len(ValChecks) + 1
    THEN [v EXCEPT !.pc = "summary", !.fn = Len(ValChecks) + 1, !.check = 0]
    ELSE [v EXCEPT !.fn = NextFunction(f), !.check = 1]

ValExit(v, code) == [v EXCEPT !.pc = "exited", !.rc = code]

\* one check of the function at work
ValCheck ==
    /\ validation.pc = "check"
    /\ \E o \in ValChecks[validation.fn][validation.check] :
          LET f == validation.fn
              k == validation.check
              c == ApplyLogs(o.logs, [ERRORS |-> validation.ERRORS,
                                      WARNINGS |-> validation.WARNINGS,
                                      aborted |-> FALSE])
              v == [validation EXCEPT !.ERRORS = c.ERRORS,
                                      !.WARNINGS = c.WARNINGS]
              onward == IF k < Len(ValChecks[f])
                        THEN [v EXCEPT !.check = k + 1]
                        ELSE AfterFunction(v, f)
          IN validation' =
                IF c.aborted THEN ValExit(v, 1)
                ELSE CASE o.end = "next" -> onward
                       [] o.end = "return0" -> AfterFunction(v, f)
                       [] o.end = "return1" ->
                            IF Aborts(1) THEN ValExit(v, 1)
                            ELSE AfterFunction(v, f)
                       [] o.end = "exit1" -> ValExit(v, 1)
                       [] o.end = "fail" ->
                            IF Aborts(AwsFailure) THEN ValExit(v, AwsFailure)
                            ELSE onward
    /\ UNCHANGED <<tests, localdev>>
    /\ UNCHANGED <<scriptVars, serverVars, concVars, platformVars>>

\* VALIDATION SUMMARY, then return $ERRORS
ValSummary ==
    /\ validation.pc = "summary"
    /\ validation' = [validation EXCEPT !.summary = TRUE,
                                        !.rc = validation.ERRORS,
                                        !.pc = "returned"]
    /\ UNCHANGED <<tests, localdev>>
    /\ UNCHANGED <<scriptVars, serverVars, concVars, platformVars>>

\* C27: whatever the checks of validate-deployment.sh find, any number of
\* warnings and errors logged, run_validation prints the VALIDATION
\* SUMMARY and returns the number of errors logged; no failing check ends
\* the script before the summary.
C27_SummaryAlwaysPrinted ==
    validation.pc \in {"exited", "returned"}
        => /\ validation.summary
           /\ validation.rc = validation.ERRORS

----------------------------------------------------------------------------
(* End-to-end deployment test script (README.md), run under `set -e`:
   run_test and its counters *)

\* the run_test calls main gets to, through its test functions
NumTests == 12

\* main: check_prerequisites ends the script with exit 1 when a tool is
\* missing
RunTests ==
    /\ ToolsIdle
    /\ \/ tests' = [tests EXCEPT !.pc = "running", !.next = 1]
       \/ tests' = [tests EXCEPT !.pc = "exited", !.rc = 1]
    /\ UNCHANGED <<validation, localdev>>
    /\ UNCHANGED <<scriptVars, serverVars, concVars, platformVars>>

\* where main is after the run_test call numbered tests.next
AfterTest(t) ==
    IF t.next = NumTests
    THEN [t EXCEPT !.pc = "report", !.next = 0]
    ELSE [t EXCEPT !.next = @ + 1]

\* run_test leaving a failed test out of TESTS_FAILED
run_test_FailureNotCounted(passed) ==
    /\ tests.pc = "running"
    /\ LET t == [tests EXCEPT !.TESTS_TOTAL = @ + 1] IN
          tests' = IF passed
                   THEN AfterTest([t EXCEPT !.TESTS_PASSED = @ + 1])
                   ELSE IF Aborts(1)
                        THEN [t EXCEPT !.pc = "exited", !.rc = 1]
                        ELSE AfterTest(t)
    /\ UNCHANGED <<validation, localdev>>
    /\ UNCHANGED <<scriptVars, serverVars, concVars, platformVars>>

\* run_test: TESTS_TOTAL+1; the command passes: TESTS_PASSED+1, return 0;
\* it fails: TESTS_FAILED+1, return 1, and every call is a simple command
run_test(passed) ==
    /\ tests.pc = "running"
    /\ LET t == [tests EXCEPT !.TESTS_TOTAL = @ + 1] IN
          tests' = IF passed
                   THEN AfterTest([t EXCEPT !.TESTS_PASSED = @ + 1])
                   ELSE IF Aborts(1)
                        THEN [t EXCEPT !.TESTS_FAILED = @ + 1,
                                       !.pc = "exited", !.rc = 1]
                        ELSE AfterTest([t EXCEPT !.TESTS_FAILED = @ + 1])
    /\ UNCHANGED <<validation, localdev>>
    /\ UNCHANGED <<scriptVars, serverVars, concVars, platformVars>>

\* another simple command of a test function fails (npm install of
\* test_ui_server, aws glue start-crawler)
TestsOtherFails ==
    /\ tests.pc = "running"
    /\ Aborts(1)
    /\ tests' = [tests EXCEPT !.pc = "exited", !.rc = 1]
    /\ UNCHANGED <<validation, localdev>>
    /\ UNCHANGED <<scriptVars, serverVars, concVars, platformVars>>

\* generate_report: $(( TESTS_PASSED * 100 / TESTS_TOTAL )), a division
\* by 0 being an error of the shell (-2 here); then return 0 or 1
generate_report ==
    /\ tests.pc = "report"
    /\ tests' = [tests EXCEPT !.rate = IF tests.TESTS_TOTAL = 0 THEN -2
                                      ELSE (tests.TESTS_PASSED * 100)
                                              \div tests.TESTS_TOTAL,
                              !.rc = IF tests.TESTS_FAILED = 0 THEN 0 ELSE 1,
                              !.pc = "done"]
    /\ UNCHANGED <<validation, localdev>>
    /\ UNCHANGED <<scriptVars, serverVars, concVars, platformVars>>

\* C29: after every call of run_test TESTS_TOTAL = TESTS_PASSED +
\* TESTS_FAILED; a call raises TESTS_TOTAL by 1 and exactly one of the two
\* other counters by 1; and TESTS_TOTAL is at least 1 when generate_report
\* computes the success rate.
C29_CountersAddUp ==
    /\ [](tests.TESTS_TOTAL = tests.TESTS_PASSED + tests.TESTS_FAILED)
    /\ [][<<tests.TESTS_TOTAL, tests.TESTS_PASSED, tests.TESTS_FAILED>>'
             # <<tests.TESTS_TOTAL, tests.TESTS_PASSED, tests.TESTS_FAILED>>
          => /\ tests.TESTS_TOTAL' = tests.TESTS_TOTAL + 1
             /\ \/ /\ tests.TESTS_PASSED' = tests.TESTS_PASSED + 1
                   /\ tests.TESTS_FAILED' = tests.TESTS_FAILED
                \/ /\ tests.TESTS_PASSED' = tests.TESTS_PASSED
                   /\ tests.TESTS_FAILED' = tests.TESTS_FAILED + 1]_vars
    /\ [](tests.pc \in {"report", "done"} => tests.TESTS_TOTAL >= 1)
    /\ [](tests.pc = "done" => tests.rate \in 0..100)

\* generate_report computed the rate after all the tests were run
C29_Witness ==
    /\ tests.pc = "done"
    /\ tests.TESTS_TOTAL = NumTests
    /\ tests.rate = 100

----------------------------------------------------------------------------
(* Local development test script (docs, part_002), run under `set -e` with
   `trap cleanup EXIT` *)

\* paths step 2 looks for, and the attempts of the wait for the server
NumStructure == 15
ui_max_attempts == 15

\* the two requests of step 6
ErrorScenarios == <<"empty_sql", "unknown_named">>

\* cleanup leaving the server alone
cleanup_SkipsKill(d) == [d EXCEPT !.cleaned = TRUE]

\* cleanup: kill $SERVER_PID when SERVER_PID is not empty
cleanup(d) ==
    [d EXCEPT !.cleaned = TRUE,
              !.signalled = IF d.SERVER_PID # "" THEN {d.SERVER_PID} ELSE {}]

\* the shell exits with `code`: the EXIT trap runs cleanup
DevExit(d, code) == [cleanup(d) EXCEPT !.pc = "exited", !.rc = code]

\* ((counter++)) as a command
Incremented(d, counter) ==
    LET d2 == [d EXCEPT ![counter] = @ + 1] IN
    IF Aborts(ArithStatus(d[counter])) THEN DevExit(d2, 1) ELSE d2

\* the script goes on to check k of a step, unless it has ended
GoOn(d, step, k) ==
    IF d.pc = "exited" THEN d ELSE [d EXCEPT !.pc = step, !.check = k]

\* the check after check k of a step of n checks
NextCheck(d, step, n, following) ==
    IF d.check < n THEN GoOn(d, step, d.check + 1) ELSE GoOn(d, following, 1)

\* the script is started: SERVER_PID="", trap cleanup EXIT
RunLocalDev ==
    /\ ToolsIdle
    /\ localdev' = [localdev EXCEPT !.pc = "prereqs", !.check = 1]
    /\ UNCHANGED <<validation, tests>>
    /\ UNCHANGED <<scriptVars, serverVars, concVars, platformVars>>

\* step 1: node (present and 18+) and npm; a failed one is counted
DevPrereq ==
    /\ localdev.pc = "prereqs"
    /\ \E ok \in BOOLEAN :
          localdev' = NextCheck(IF ok THEN localdev
                                ELSE Incremented(localdev, "failed_prereqs"),
                                "prereqs", Len(<<"node", "npm">>), "structure")
    /\ UNCHANGED <<validation, tests>>
    /\ UNCHANGED <<scriptVars, serverVars, concVars, platformVars>>

\* step 2: test_project_structure ... || ((structure_errors++))
DevStructure ==
    /\ localdev.pc = "structure"
    /\ \E present \in BOOLEAN :
          localdev' = NextCheck(IF present THEN localdev
                                ELSE Incremented(localdev, "structure_errors"),
                                "structure", NumStructure, "credentials")
    /\ UNCHANGED <<validation, tests>>
    /\ UNCHANGED <<scriptVars, serverVars, concVars, platformVars>>

\* step 3: aws_configured
DevCredentials ==
    /\ localdev.pc = "credentials"
    /\ \E valid \in BOOLEAN :
          localdev' = GoOn([localdev EXCEPT !.aws_configured = valid], "install", 1)
    /\ UNCHANGED <<validation, tests>>
    /\ UNCHANGED <<scriptVars, serverVars, concVars, platformVars>>

\* step 4: CDK dependencies and synthesis, UI dependencies
DevInstall ==
    /\ localdev.pc = "install"
    /\ \E ok \in BOOLEAN :
          localdev' = NextCheck(IF ok THEN localdev
                                ELSE Incremented(localdev, "install_errors"),
                                "install", Len(<<"cdk", "ui">>), "start")
    /\ UNCHANGED <<validation, tests>>
    /\ UNCHANGED <<scriptVars, serverVars, concVars, platformVars>>

\* step 5: cd "$PROJECT_DIR/ui"; npm start &; SERVER_PID=$!
DevStartServer ==
    /\ localdev.pc = "start"
    /\ \/ localdev' = GoOn([localdev EXCEPT !.SERVER_PID = "pid"], "wait", 1)
       \/ /\ Aborts(1)
          /\ localdev' = DevExit(localdev, 1)
    /\ UNCHANGED <<validation, tests>>
    /\ UNCHANGED <<scriptVars, serverVars, concVars, platformVars>>

\* while [ $attempt -lt $max_attempts ]: curl /health; sleep 2; ((attempt++))
DevWait ==
    /\ localdev.pc = "wait"
    /\ \E up \in BOOLEAN :
          localdev' =
             IF localdev.attempt < ui_max_attempts
             THEN IF up
                  THEN GoOn([localdev EXCEPT !.server_ready = TRUE], "endpoints", 1)
                  ELSE Incremented(localdev, "attempt")
             ELSE GoOn(localdev, "endpoints", 1)
    /\ UNCHANGED <<validation, tests>>
    /\ UNCHANGED <<scriptVars, serverVars, concVars, platformVars>>

\* the endpoint tests of step 5: health_response=$(curl ...) and
\* conn_response=$(curl ...) are plain assignments; without a server
\* install_errors=$((install_errors + 1))
DevEndpoints ==
    /\ localdev.pc = "endpoints"
    /\ \E answered \in BOOLEAN :
          localdev' =
             IF localdev.server_ready
             THEN IF answered \/ ~Aborts(1)
                  THEN GoOn(localdev, "errors", 1)
                  ELSE DevExit(localdev, 1)
             ELSE GoOn([localdev EXCEPT !.install_errors = @ + 1], "summary", 1)
    /\ UNCHANGED <<validation, tests>>
    /\ UNCHANGED <<scriptVars, serverVars, concVars, platformVars>>

\* step 6: one of the two requests; the response holds "success":false
\* or it does not, and either way only a line is printed
DevErrorScenario ==
    /\ localdev.pc = "errors"
    /\ \E response \in {"success_false", "other", "no_answer"} :
          LET k == ErrorScenarios[localdev.check] IN
          localdev' =
             IF response = "no_answer" /\ Aborts(1)
             THEN DevExit(localdev, 1)
             ELSE NextCheck([localdev EXCEPT
                                !.ran = @ \cup {k},
                                !.rejected = IF response = "success_false"
                                             THEN @ \cup {k} ELSE @],
                            "errors", Len(ErrorScenarios), "summary")
    /\ UNCHANGED <<validation, tests>>
    /\ UNCHANGED <<scriptVars, serverVars, concVars, platformVars>>

\* total_issues=$((failed_prereqs + structure_errors + install_errors))
total_issues(d) == d.failed_prereqs + d.structure_errors + d.install_errors

\* step 7: the summary, then exit $total_issues
DevSummary ==
    /\ localdev.pc = "summary"
    /\ localdev' =
          DevExit([localdev EXCEPT
                      !.lines = IF total_issues(localdev) = 0
                                THEN {"all_passed", "error_handling_ok"}
                                ELSE {"issues"}],
                  total_issues(localdev))
    /\ UNCHANGED <<validation, tests>>
    /\ UNCHANGED <<scriptVars, serverVars, concVars, platformVars>>

----------------------------------------------------------------------------
ToolsNext ==
    \/ \E skip_aws, skip_ui \in BOOLEAN : RunValidation(skip_aws, skip_ui)
    \/ ValCheck
    \/ ValSummary
    \/ RunTests
    \/ \E passed \in BOOLEAN : run_test(passed)
    \/ TestsOtherFails
    \/ generate_report
    \/ RunLocalDev
    \/ DevPrereq
    \/ DevStructure
    \/ DevCredentials
    \/ DevInstall
    \/ DevStartServer
    \/ DevWait
    \/ DevEndpoints
    \/ DevErrorScenario
    \/ DevSummary

ToolsSpec == Init /\ [][ToolsNext]_vars

\* C28: the local development test script prints 'All local development
\* tests passed!' and 'Error Handling: Working correctly' only in a run in
\* which both error-scenario requests were made and each response held
\* "success":false.
C28_ErrorHandlingVerified ==
    {"all_passed", "error_handling_ok"} \subseteq localdev.lines
        => /\ localdev.ran = {"empty_sql", "unknown_named"}
           /\ localdev.rejected = {"empty_sql", "unknown_named"}

\* C30: once the UI server was started, the script does not exit, at its
\* end or by the failure of a later step, without the cleanup handler
\* running and signalling the recorded server PID.
C30_ServerSignalledOnExit ==
    (localdev.pc = "exited" /\ localdev.SERVER_PID # "")
        => /\ localdev.cleaned
           /\ localdev.SERVER_PID \in localdev.signalled

\* the script was ended by set -e while it waited for the server it had
\* started
C30_Witness ==
    /\ localdev.pc = "exited"
    /\ localdev.SERVER_PID = "pid"
    /\ localdev.rc = 1
    /\ ~localdev.server_ready
    /\ localdev.signalled = {"pid"}

====
